---- MODULE Spec2Model ----
(***************************************************************************)
(* The joke generator of Python-Test/3/Python01.py: Config, AudioManager,  *)
(* JokeManager, JokeGeneratorApp and main, as a state machine.  One        *)
(* control thread runs main; playback workers are the threads started by   *)
(* AudioManager.start_background_playback.  The history file outlives the  *)
(* process, so a behaviour may hold several consecutive process runs.      *)
(***************************************************************************)
EXTENDS Integers, Sequences, FiniteSets, TLC

\* ------------------------------------------------------------------ bounds
MaxRuns     == 2   \* consecutive process runs in one behaviour
MaxCount    == 2   \* largest --count argument tried
MaxIter     == 3   \* daemon loop iterations per run
MaxCommands == 1   \* interactive commands read per run
MaxWorkers  == 2   \* playback threads that can be created per process
MaxLen      == 2   \* records fetched by a history store driven on its own
MaxPaths    == 2   \* audio files an audio manager driven on its own creates

\* --------------------------------------------------------- program constants
DefaultJokeCount == 10      \* Config.joke_count
DefaultDelay     == 3       \* Config.delay_seconds

\* ------------------------------------------------------------------ state
VARIABLES
  pc,               \* position of the control thread in main
  ret,              \* where cleanup returns to: "atexit" or "exited"
  ended,            \* how the run mode ended: none, return, interrupt, exception
  runNo,            \* number of the current process run
  args,             \* parsed process arguments
  configFile,       \* the settings file
  PYJOKES_AVAILABLE,
  GTTS_AVAILABLE,
  config,           \* the Config object
  running,          \* JokeGeneratorApp.running
  jokes_history,    \* JokeManager.jokes_history
  historyFile,      \* jokes_history.json in the output directory
  lastJoke,         \* the record the last get_joke call returned
  count,            \* run_batch: the resolved count
  i,                \* run_batch: loop index
  audio_queue,      \* AudioManager.audio_queue
  stop_event,       \* AudioManager.stop_event
  playback_thread,  \* AudioManager.playback_thread (0 is None)
  worker,           \* position of each playback thread
  playing,          \* the path each playback thread holds
  played,           \* paths handed to play_audio by workers, in order
  calls,            \* calls made in this run, by name
  loadedLen,        \* length of the history after load_jokes_history
  signalled,        \* whether _signal_handler has run in this process
  lastSave,         \* outcome of the latest save_jokes_history call
  stdin,            \* the input stream of the interactive mode: open or eof
  system,           \* platform.system()
  files,            \* the audio files that exist, by path
  lastPlay          \* the latest play_audio call: its argument and outcome

vars == <<pc, ret, ended, runNo, args, configFile, PYJOKES_AVAILABLE, GTTS_AVAILABLE,
          config, running, jokes_history, historyFile, lastJoke, count, i,
          audio_queue, stop_event, playback_thread, worker, playing, played,
          calls, loadedLen, signalled, lastSave, stdin, system, files, lastPlay>>

\* ------------------------------------------------------------ JSON values
\* A value of the settings file or of a Config field, with its Python type.
TInt(n)  == [t |-> "int", n |-> n]
TBool(b) == [t |-> "bool", n |-> IF b THEN 1 ELSE 0]
TStr     == [t |-> "str", n |-> 1]          \* a non-empty, non-numeric string

\* Python truth value of a field (if self.config.audio_enabled:)
Truthy(v) == IF v.t = "str" THEN TRUE ELSE v.n # 0
\* range(v) and time.sleep(v) raise TypeError unless v is a number
IsNumber(v) == v.t \in {"int", "bool"}

\* The declared type of each Config field that the run modes read ("int"
\* stands for a JSON number, which both int and float fields accept).
FieldType == [joke_count |-> "int", delay_seconds |-> "int", audio_enabled |-> "bool"]
Fields    == DOMAIN FieldType

\* Config() with its defaults
Config == [joke_count    |-> TInt(DefaultJokeCount),
           delay_seconds |-> TInt(DefaultDelay),
           audio_enabled |-> TBool(TRUE)]

\* Settings files tried: a function from the keys of the JSON object to values.
NoFile == [exists |-> FALSE, data |-> <<>>]
File(d) == [exists |-> TRUE, data |-> d]
ConfigFiles ==
  { NoFile,
    File([joke_count |-> TInt(2), delay_seconds |-> TInt(0),
          audio_enabled |-> TStr, colour |-> TInt(1)]),
    File([joke_count |-> TStr, delay_seconds |-> TStr, audio_enabled |-> TBool(FALSE)]) }

\* hasattr(self.config, key)
hasattr(key) == key \in Fields

\* JokeGeneratorApp.load_config: every key of the file that names an attribute
\* of the config is assigned, whatever the type of its value.
load_config(cfg, file) ==
  IF ~file.exists THEN cfg
  ELSE [k \in Fields |->
          IF k \in DOMAIN file.data /\ hasattr(k) THEN file.data[k] ELSE cfg[k]]

\* Mutant of override: the argument is not applied.
no_override(cfg, noAudio) == cfg

\* main: if args.no_audio: config.audio_enabled = False
override(cfg, noAudio) ==
  IF noAudio THEN [cfg EXCEPT !.audio_enabled = TBool(FALSE)] ELSE cfg

\* ---------------------------------------------------------------- records
\* A Python str is a sequence of pieces: a piece is a run of plain ASCII
\* characters, or one of the characters the JSON encoder escapes.
Quote     == "\""
Backslash == "\\"
NonAscii  == {"e-acute"}
CodeOf    == [c \in NonAscii |-> "u00e9"]

JokeTexts    == {<<"j1">>}
FallbackText == <<"atoms">>
ErrorText    == <<"try again">>

\* datetime.now().isoformat(): one instant stands for all.
Now == <<"2026-11-03T10:00:00">>

\* ------------------------------------------------------------- JSON text
\* Mutant of escape: nothing is escaped.
escape_nothing(c) == <<c>>

\* json's string encoder (ensure_ascii): the quote and the backslash get a
\* backslash in front, a non-ASCII character is written as its \uXXXX code.
escape(c) ==
  IF c = Quote THEN <<Backslash, Quote>>
  ELSE IF c = Backslash THEN <<Backslash, Backslash>>
  ELSE IF c \in NonAscii THEN <<Backslash, CodeOf[c]>>
  ELSE <<c>>

RECURSIVE escape_all(_)
escape_all(str) ==
  IF str = <<>> THEN <<>> ELSE escape(Head(str)) \o escape_all(Tail(str))

\* json.dumps of a str: the escaped pieces between two quotes.
json_string(str) == <<Quote>> \o escape_all(str) \o <<Quote>>

\* The character an escape sequence stands for.
unescape(e) ==
  IF e \in {Quote, Backslash} THEN e ELSE CHOOSE c \in NonAscii : CodeOf[c] = e

\* json's string scanner on what stands between the quotes: it reads up to
\* the closing quote, which is the first quote without a backslash in front,
\* and replaces each escape sequence.
RECURSIVE scan(_)
scan(t) ==
  IF t = <<>> \/ Head(t) = Quote THEN <<>>
  ELSE IF Head(t) = Backslash
         THEN <<unescape(t[2])>> \o scan(SubSeq(t, 3, Len(t)))
         ELSE <<Head(t)>> \o scan(Tail(t))

scanstring(lit) == scan(Tail(lit))

Digit == <<"0", "1", "2", "3", "4", "5", "6", "7", "8", "9">>
DigitValue(d) == CHOOSE v \in 0..9 : Digit[v + 1] = d

\* json.dumps of an int: its decimal digits.
RECURSIVE int_repr(_)
int_repr(n) ==
  IF n < 10 THEN <<Digit[n + 1]>>
  ELSE Append(int_repr(n \div 10), Digit[(n % 10) + 1])

\* int() of the digits of a JSON number
RECURSIVE parse_int(_)
parse_int(t) ==
  IF Len(t) = 1 THEN DigitValue(t[1])
  ELSE 10 * parse_int(SubSeq(t, 1, Len(t) - 1)) + DigitValue(t[Len(t)])

\* The encoder goes by the Python type of the value: "id" is the one int of
\* a record, every other value is a str.
dump_value(key, v) == IF key = "id" THEN int_repr(v) ELSE json_string(v)

\* The decoder goes by the first character of the literal.
load_value(lit) == IF Head(lit) = Quote THEN scanstring(lit) ELSE parse_int(lit)

\* json.dump(self.jokes_history, f): an array of objects; the array and the
\* objects keep their shape, every value is written as its literal.
json_dump(history) ==
  [k \in 1..Len(history) |->
     [key \in DOMAIN history[k] |-> dump_value(key, history[k][key])]]

\* json.load(f)
json_load(data) ==
  [k \in 1..Len(data) |->
     [key \in DOMAIN data[k] |-> load_value(data[k][key])]]

\* Mutant of NextId: the id comes from a counter of the calls of this process.
NextIdFromCounter(history) == calls["get_joke"] + 1

\* "id": len(self.jokes_history) + 1
NextId(history) == Len(history) + 1

HasId(r) == "id" \in DOMAIN r

\* JokeManager.get_joke: the returned record and the history after the call.
\* avail is PYJOKES_AVAILABLE; raises says whether pyjokes.get_joke raised.
get_joke(history, avail, raises, text) ==
  IF ~avail
    THEN [joke    |-> [text |-> FallbackText, category |-> <<"fallback">>,
                       timestamp |-> Now],
          history |-> history]
  ELSE IF raises
    THEN [joke    |-> [text |-> ErrorText, category |-> <<"error">>,
                       timestamp |-> Now],
          history |-> history]
  ELSE LET joke_data == [text |-> text, category |-> <<"general">>,
                         timestamp |-> Now, id |-> NextId(history)]
       IN  [joke |-> joke_data, history |-> Append(history, joke_data)]

\* -------------------------------------------------------------- arguments
Count(n) == [given |-> TRUE, n |-> n]
NoCount  == [given |-> FALSE, n |-> 0]
Args ==
     { [mode |-> m, count |-> NoCount, install |-> FALSE, no_audio |-> a] :
         m \in {"interactive", "daemon"}, a \in BOOLEAN }
  \cup { [mode |-> "batch", count |-> c, install |-> FALSE, no_audio |-> a] :
         c \in {NoCount} \cup { Count(n) : n \in 0..MaxCount }, a \in BOOLEAN }
  \cup { [mode |-> "interactive", count |-> NoCount, install |-> TRUE, no_audio |-> FALSE] }

Workers == 1..MaxWorkers
NoJoke  == [text |-> <<>>, category |-> <<"none">>]

CallNames == {"get_joke", "text_to_speech", "play_audio", "put", "start",
              "stop", "join", "save", "cleanup", "cleanup_save", "load",
              "command", "task_done", "install", "raised"}
NoCalls == [c \in CallNames |-> 0]

AbsentHistory == [st |-> "absent", data |-> <<>>]

\* No play_audio call was made yet.
NoPlay == [path |-> 0, existed |-> FALSE, result |-> FALSE,
           launched |-> "none", raised |-> FALSE]

\* The machine the process runs on.  Every caller of play_audio drops its
\* result, so the run modes are followed on one platform and without the
\* audio files; play_audio itself is followed on every platform in SpecPlay.
Host(sys, fs) ==
  /\ system = sys
  /\ files = fs
  /\ lastPlay = NoPlay

\* A fresh process: parsed arguments, Config(), JokeGeneratorApp(config).
\* The signal handlers and the exit hook are installed by the constructor.
Process(at, a, f, pj, gt) ==
  /\ pc = at
  /\ ret = "atexit"
  /\ ended = "none"
  /\ args = a
  /\ configFile = f
  /\ PYJOKES_AVAILABLE = pj
  /\ GTTS_AVAILABLE = gt
  /\ config = Config
  /\ running = FALSE
  /\ jokes_history = <<>>
  /\ lastJoke = NoJoke
  /\ count = 0
  /\ i = 0
  /\ audio_queue = <<>>
  /\ stop_event = FALSE
  /\ playback_thread = 0
  /\ worker = [w \in Workers |-> "unborn"]
  /\ playing = [w \in Workers |-> 0]
  /\ played = <<>>
  /\ calls = NoCalls
  /\ loadedLen = 0
  /\ stdin = "open"
  /\ signalled = FALSE

Init ==
  /\ \E a \in Args, f \in ConfigFiles, pj \in BOOLEAN, gt \in BOOLEAN :
       Process("load_config", a, f, pj, gt)
  /\ runNo = 1
  /\ historyFile = AbsentHistory
  /\ lastSave = "none"
  /\ Host("Linux", {})

osVars    == <<system, files, lastPlay>>
envVars   == <<runNo, args, configFile, PYJOKES_AVAILABLE, GTTS_AVAILABLE, osVars>>
ctlVars   == <<pc, ret, ended, config, running, count, i, loadedLen, stdin, signalled>>
histVars  == <<jokes_history, lastJoke>>
fileVars  == <<historyFile, lastSave>>
audioVars == <<audio_queue, stop_event, playback_thread, worker, playing, played>>

Bump(names) == [c \in CallNames |-> calls[c] + IF c \in names THEN 1 ELSE 0]

\* ------------------------------------------------------------ AudioManager
\* text_to_speech: None (0) without gTTS, and also when gTTS raises, which is
\* taken here as gTTS being out of order for the whole run; else the saved
\* path.  A path is named by the number of the text_to_speech call that made it.
text_to_speech ==
  IF GTTS_AVAILABLE THEN calls["text_to_speech"] + 1 ELSE 0

\* The thread object a call of start_background_playback creates.
NewThread ==
  CHOOSE w \in Workers :
    worker[w] = "unborn" /\ \A v \in Workers : worker[v] = "unborn" => w <= v

\* start_background_playback: a new thread is created and started on every call.
start_background_playback(wk) == [wk EXCEPT ![NewThread] = "check"]

Alive(w) == worker[w] \in {"check", "get", "play"}

\* Mutant of WorkerCheck: the loop condition does not look at the stop event.
WorkerCheckIgnoresStop(w) ==
  /\ worker[w] = "check"
  /\ worker' = [worker EXCEPT ![w] = "get"]
  /\ UNCHANGED <<envVars, ctlVars, histVars, fileVars, calls,
                 audio_queue, stop_event, playback_thread, playing, played>>

\* playback_worker: while not self.stop_event.is_set()
WorkerCheck(w) ==
  /\ worker[w] = "check"
  /\ worker' = [worker EXCEPT ![w] = IF stop_event THEN "dead" ELSE "get"]
  /\ UNCHANGED <<envVars, ctlVars, histVars, fileVars, calls,
                 audio_queue, stop_event, playback_thread, playing, played>>

\* Mutant of get: the item put last is taken first.
get_lifo(q) == [item |-> q[Len(q)], rest |-> SubSeq(q, 1, Len(q) - 1)]

\* queue.Queue.get on a queue that is not empty: the oldest item is removed.
get(q) == [item |-> Head(q), rest |-> Tail(q)]

\* filepath = self.audio_queue.get(timeout=1), then the call of play_audio
WorkerGet(w) ==
  /\ worker[w] = "get"
  /\ audio_queue # <<>>
  /\ audio_queue' = get(audio_queue).rest
  /\ playing' = [playing EXCEPT ![w] = get(audio_queue).item]
  /\ played' = Append(played, get(audio_queue).item)
  /\ calls' = Bump({"play_audio"})
  /\ worker' = [worker EXCEPT ![w] = "play"]
  /\ UNCHANGED <<envVars, ctlVars, histVars, fileVars, stop_event, playback_thread>>

\* except queue.Empty: continue
WorkerTimeout(w) ==
  /\ worker[w] = "get"
  /\ audio_queue = <<>>
  /\ worker' = [worker EXCEPT ![w] = "check"]
  /\ UNCHANGED <<envVars, ctlVars, histVars, fileVars, calls,
                 audio_queue, stop_event, playback_thread, playing, played>>

\* Mutant of WorkerPlayed: the worker records what it played in the history.
WorkerPlayedRecords(w) ==
  /\ worker[w] = "play"
  /\ playing' = [playing EXCEPT ![w] = 0]
  /\ calls' = Bump({"task_done"})
  /\ worker' = [worker EXCEPT ![w] = "check"]
  /\ jokes_history' = Append(jokes_history, [text |-> <<>>, category |-> <<"played">>])
  /\ UNCHANGED <<envVars, ctlVars, fileVars, lastJoke,
                 audio_queue, stop_event, playback_thread, played>>

\* play_audio returns; self.audio_queue.task_done()
WorkerPlayed(w) ==
  /\ worker[w] = "play"
  /\ playing' = [playing EXCEPT ![w] = 0]
  /\ calls' = Bump({"task_done"})
  /\ worker' = [worker EXCEPT ![w] = "check"]
  /\ UNCHANGED <<envVars, ctlVars, histVars, fileVars,
                 audio_queue, stop_event, playback_thread, played>>

\* ------------------------------------------------------------- JokeManager
\* load_jokes_history: the array read from the file replaces the history; an absent or
\* unparsable file leaves the history as it is.
load_jokes_history(history, file) ==
  IF file.st = "ok" THEN json_load(file.data) ELSE history

\* Mutant of save_jokes_history: only the records of this run are written.
save_new_records(history, file, outcome) ==
  IF outcome = "ok"
    THEN [st |-> "ok", data |-> json_dump(SubSeq(history, loadedLen + 1, Len(history)))]
    ELSE file

\* save_jokes_history: the whole history, as JSON, overwrites the file.  The write can
\* fail before the file is opened (the file is left as it was) or after it was
\* truncated (the file is left unparsable); both are logged and swallowed.
save_jokes_history(history, file, outcome) ==
  CASE outcome = "ok"      -> [st |-> "ok", data |-> json_dump(history)]
    [] outcome = "no_open" -> file
    [] outcome = "partial" -> [st |-> "corrupt", data |-> <<>>]

SaveOutcomes == {"ok", "no_open", "partial"}

\* ------------------------------------------------------------------- main
\* Where control goes when the run mode returns, and when it raises: main's
\* try statement has a finally block, so cleanup is called in both cases.
ModeReturned == "finally"

\* Mutant of ModeRaised: cleanup is called after the try statement, not in a
\* finally block, so an exception skips it.
ModeRaisedSkipsCleanup == "atexit"

ModeRaised == "finally"

\* app.load_config(), the --no-audio override, and the --install branch,
\* which returns from main without entering the try block.
LoadConfig ==
  /\ pc = "load_config"
  /\ config' = override(load_config(config, configFile), args.no_audio)
  /\ IF args.install
       THEN /\ pc' = "atexit"
            /\ calls' = Bump({"install"})
       ELSE /\ pc' = "load_history"
            /\ calls' = calls
  /\ UNCHANGED <<envVars, histVars, fileVars, audioVars,
                 ret, ended, running, count, i, loadedLen, stdin, signalled>>

\* app.joke_manager.load_jokes_history()
LoadHistory ==
  /\ pc = "load_history"
  /\ jokes_history' = load_jokes_history(jokes_history, historyFile)
  /\ loadedLen' = Len(jokes_history')
  /\ calls' = Bump({"load"})
  /\ pc' = "dispatch"
  /\ UNCHANGED <<envVars, fileVars, audioVars, lastJoke,
                 ret, ended, config, running, count, i, stdin, signalled>>

\* run_interactive up to the loop: self.running = True
StartInteractive ==
  /\ pc = "dispatch"
  /\ args.mode = "interactive"
  /\ running' = TRUE
  /\ pc' = "interactive"
  /\ UNCHANGED <<envVars, histVars, fileVars, audioVars, calls,
                 ret, ended, config, count, i, loadedLen, stdin, signalled>>

\* run_batch up to the loop: the count is resolved and range(count) is built,
\* which raises TypeError when the count is not a number.  self.running is
\* not assigned.
StartBatch ==
  /\ pc = "dispatch"
  /\ args.mode = "batch"
  /\ LET c == IF args.count.given THEN TInt(args.count.n) ELSE config.joke_count
     IN  IF IsNumber(c)
           THEN /\ count' = c.n
                /\ i' = 0
                /\ pc' = "batch"
                /\ ended' = ended
           ELSE /\ pc' = ModeRaised
                /\ ended' = "exception"
                /\ UNCHANGED <<count, i>>
  /\ UNCHANGED <<envVars, histVars, fileVars, audioVars, calls,
                 ret, config, running, loadedLen, stdin, signalled>>

\* run_daemon up to the loop: self.running = True, then the worker is started
StartDaemon ==
  /\ pc = "dispatch"
  /\ args.mode = "daemon"
  /\ running' = TRUE
  /\ worker' = start_background_playback(worker)
  /\ playback_thread' = NewThread
  /\ calls' = Bump({"start"})
  /\ pc' = "daemon"
  /\ UNCHANGED <<envVars, histVars, fileVars,
                 audio_queue, stop_event, playing, played,
                 ret, ended, config, count, i, loadedLen, stdin, signalled>>

\* The fetch shared by the three modes, with synchronous playback
\* (interactive and batch): get_joke, then text_to_speech and play_audio when
\* audio is enabled.  path is what text_to_speech returned.
FetchAndPlay(raises, text, path, also) ==
  LET r == get_joke(jokes_history, PYJOKES_AVAILABLE, raises, text)
  IN  /\ jokes_history' = r.history
      /\ lastJoke' = r.joke
      /\ calls' = Bump({"get_joke"} \cup also
                       \cup (IF PYJOKES_AVAILABLE /\ raises THEN {"raised"} ELSE {})
                       \cup (IF Truthy(config.audio_enabled) THEN {"text_to_speech"} ELSE {})
                       \cup (IF Truthy(config.audio_enabled) /\ path # 0 THEN {"play_audio"} ELSE {}))

\* One pass of run_batch's for loop, or its end.
BatchStep ==
  /\ pc = "batch"
  /\ IF i >= count \/ ~running
       THEN /\ pc' = ModeReturned
            /\ ended' = "return"
            /\ UNCHANGED <<histVars, calls, i>>
       ELSE \E raises \in BOOLEAN, text \in JokeTexts :
              LET path == text_to_speech
              IN  /\ FetchAndPlay(raises, text, path, {})
                  /\ i' = i + 1
                  /\ IF Truthy(config.audio_enabled) /\ path # 0
                          /\ ~IsNumber(config.delay_seconds)
                       THEN pc' = ModeRaised /\ ended' = "exception"
                       ELSE pc' = "batch" /\ ended' = ended
  /\ UNCHANGED <<envVars, fileVars, audioVars,
                 ret, config, running, count, loadedLen, stdin, signalled>>

\* run_interactive: while self.running
InteractiveTop ==
  /\ pc = "interactive"
  /\ IF running
       THEN pc' = "input" /\ ended' = ended
       ELSE pc' = ModeReturned /\ ended' = "return"
  /\ UNCHANGED <<envVars, histVars, fileVars, audioVars, calls,
                 ret, config, running, count, i, loadedLen, stdin, signalled>>

Commands == {"j", "s", "h", "c", "q", "?"}

\* One command read by input() and handled; input() returns a line only
\* while the stream has one.
InteractiveCommand ==
  /\ pc = "input"
  /\ stdin = "open"
  /\ calls["command"] < MaxCommands
  /\ \E command \in Commands, raises \in BOOLEAN, text \in JokeTexts,
        outcome \in SaveOutcomes :
       /\ CASE command = "j" ->
                 /\ FetchAndPlay(raises, text, text_to_speech, {"command"})
                 /\ UNCHANGED fileVars
            [] command = "s" ->
                 /\ historyFile' = save_jokes_history(jokes_history, historyFile, outcome)
                 /\ lastSave' = outcome
                 /\ calls' = Bump({"save", "command"})
                 /\ UNCHANGED histVars
            [] OTHER ->
                 /\ calls' = Bump({"command"})
                 /\ UNCHANGED <<histVars, fileVars>>
       /\ IF command = "q"
            THEN pc' = ModeReturned /\ ended' = "return"
            ELSE pc' = "interactive" /\ ended' = ended
  /\ UNCHANGED <<envVars, audioVars, ret, config, running, count, i, loadedLen, stdin, signalled>>

\* input() raises EOFError at the end of the input, and again on every later
\* call; except Exception logs it and the loop goes on.
InteractiveEOF ==
  /\ pc = "input"
  /\ stdin' = "eof"
  /\ pc' = "interactive"
  /\ UNCHANGED <<envVars, histVars, fileVars, audioVars, calls,
                 ret, ended, config, running, count, i, loadedLen, signalled>>

\* except KeyboardInterrupt: break (run_interactive); in the other modes the
\* interrupt leaves the mode and is caught in main.  With the handler of
\* __init__ installed SIGINT itself only clears the flag (SignalHandler); the
\* two except clauses are followed for an interrupt raised all the same.
KeyboardInterrupt ==
  /\ pc \in {"input", "batch", "daemon", "daemon_body"}
  /\ pc' = IF pc = "input" THEN ModeReturned ELSE ModeRaised
  /\ ended' = "interrupt"
  /\ UNCHANGED <<envVars, histVars, fileVars, audioVars, calls,
                 ret, config, running, count, i, loadedLen, stdin, signalled>>

\* Mutant of DaemonTop: the loop does not look at the flag; it ends after
\* MaxIter passes.
DaemonTopIgnoresFlag ==
  /\ pc = "daemon"
  /\ IF calls["get_joke"] < MaxIter
       THEN pc' = "daemon_body" /\ ended' = ended
       ELSE pc' = ModeReturned /\ ended' = "return"
  /\ UNCHANGED <<envVars, histVars, fileVars, audioVars, calls,
                 ret, config, running, count, i, loadedLen, stdin, signalled>>

\* run_daemon: while self.running.  The loop is followed for MaxIter passes;
\* after them it stays here until the flag is cleared.
DaemonTop ==
  /\ pc = "daemon"
  /\ running => calls["get_joke"] < MaxIter
  /\ IF running
       THEN pc' = "daemon_body" /\ ended' = ended
       ELSE pc' = ModeReturned /\ ended' = "return"
  /\ UNCHANGED <<envVars, histVars, fileVars, audioVars, calls,
                 ret, config, running, count, i, loadedLen, stdin, signalled>>

\* Mutant of DaemonBody: the loop plays the synthesized file itself, as the
\* other two modes do, and puts nothing on the queue.
DaemonBodyPlays ==
  /\ pc = "daemon_body"
  /\ \E raises \in BOOLEAN, text \in JokeTexts :
       FetchAndPlay(raises, text, text_to_speech, {})
  /\ IF IsNumber(config.delay_seconds)
       THEN pc' = "daemon" /\ ended' = ended
       ELSE pc' = ModeRaised /\ ended' = "exception"
  /\ UNCHANGED <<envVars, fileVars, audioVars,
                 ret, config, running, count, i, loadedLen, stdin, signalled>>

\* The body of run_daemon's loop: get_joke, text_to_speech and put when audio
\* is enabled, then time.sleep(delay_seconds), which raises TypeError when the
\* delay is not a number.
DaemonBody ==
  /\ pc = "daemon_body"
  /\ \E raises \in BOOLEAN, text \in JokeTexts :
       LET r     == get_joke(jokes_history, PYJOKES_AVAILABLE, raises, text)
           audio == Truthy(config.audio_enabled)
           path  == text_to_speech
       IN  /\ jokes_history' = r.history
           /\ lastJoke' = r.joke
           /\ audio_queue' = IF audio /\ path # 0
                               THEN Append(audio_queue, path) ELSE audio_queue
           /\ calls' = Bump({"get_joke"}
                            \cup (IF PYJOKES_AVAILABLE /\ raises THEN {"raised"} ELSE {})
                            \cup (IF audio THEN {"text_to_speech"} ELSE {})
                            \cup (IF audio /\ path # 0 THEN {"put"} ELSE {}))
  /\ IF IsNumber(config.delay_seconds)
       THEN pc' = "daemon" /\ ended' = ended
       ELSE pc' = ModeRaised /\ ended' = "exception"
  /\ UNCHANGED <<envVars, fileVars, stop_event, playback_thread, worker,
                 playing, played, ret, config, running, count, i, loadedLen, stdin, signalled>>

\* _signal_handler, run for SIGINT or SIGTERM once the constructor has
\* installed it: self.running = False
SignalHandler ==
  /\ pc \notin {"exited", "off"}
  /\ running' = FALSE
  /\ signalled' = TRUE
  /\ UNCHANGED <<envVars, histVars, fileVars, audioVars, calls,
                 pc, ret, ended, config, count, i, loadedLen, stdin>>

\* Mutant of join: a join with no timeout returns only when the thread ended.
join_untimed(thread, timeout) == ~Alive(thread)

\* Thread.join(timeout=2): returns when the thread has ended, or when the
\* timeout has run out; timeout says whether a timeout was given.
join(thread, timeout) == ~Alive(thread) \/ timeout

\* stop_background_playback: the stop event is set, and a thread that was ever
\* started is joined (at joinAt); there is nothing to join otherwise.
stop_background_playback(joinAt, doneAt) ==
  /\ stop_event' = TRUE
  /\ pc' = IF playback_thread # 0 THEN joinAt ELSE doneAt

\* cleanup, entered from main's finally block or as the registered exit hook:
\* stop_background_playback sets the stop event ...
CleanupStop ==
  /\ pc \in {"finally", "atexit"}
  /\ ret' = IF pc = "finally" THEN "atexit" ELSE "exited"
  /\ stop_background_playback("join", "save")
  /\ calls' = Bump({"cleanup", "stop"})
  /\ UNCHANGED <<envVars, histVars, fileVars, audio_queue, playback_thread,
                 worker, playing, played,
                 ended, config, running, count, i, loadedLen, stdin, signalled>>

\* ... and joins the thread for at most two seconds: the join returns when
\* the thread has ended or when the time is up, whichever comes first.
CleanupJoin ==
  /\ pc = "join"
  /\ join(playback_thread, TRUE)
  /\ calls' = Bump({"join"})
  /\ pc' = "save"
  /\ UNCHANGED <<envVars, histVars, fileVars, audioVars,
                 ret, ended, config, running, count, i, loadedLen, stdin, signalled>>

\* cleanup: self.joke_manager.save_jokes_history(), then the return.  After
\* the exit hook the interpreter ends and daemon threads end with it.
CleanupSave ==
  /\ pc = "save"
  /\ \E outcome \in SaveOutcomes :
       /\ historyFile' = save_jokes_history(jokes_history, historyFile, outcome)
       /\ lastSave' = outcome
  /\ calls' = Bump({"save", "cleanup_save"})
  /\ pc' = ret
  /\ worker' = IF ret = "exited"
                 THEN [w \in Workers |-> IF Alive(w) THEN "dead" ELSE worker[w]]
                 ELSE worker
  /\ UNCHANGED <<envVars, histVars, audio_queue, stop_event, playback_thread,
                 playing, played,
                 ret, ended, config, running, count, i, loadedLen, stdin, signalled>>

\* The process is gone: its memory is released.  The history file stays.
ProcessEnd ==
  /\ pc = "exited"
  /\ pc' = "off"
  /\ ret' = "atexit"
  /\ ended' = "none"
  /\ config' = Config
  /\ running' = FALSE
  /\ jokes_history' = <<>>
  /\ lastJoke' = NoJoke
  /\ count' = 0
  /\ i' = 0
  /\ audio_queue' = <<>>
  /\ stop_event' = FALSE
  /\ playback_thread' = 0
  /\ worker' = [w \in Workers |-> "unborn"]
  /\ playing' = [w \in Workers |-> 0]
  /\ played' = <<>>
  /\ calls' = NoCalls
  /\ loadedLen' = 0
  /\ stdin' = "open"
  /\ signalled' = FALSE
  /\ lastSave' = "none"
  /\ UNCHANGED <<envVars, historyFile>>

\* install_dependencies: a package that is missing is installed with pip,
\* which may fail; the set of what the next process can find.
install_dependencies(available) == {available, TRUE}

\* The program is run again: a new process with new arguments and a settings
\* file that may have been edited.  The packages found at import time are the
\* ones the last run found, or installed under --install.
Restart ==
  /\ pc = "off"
  /\ runNo < MaxRuns
  /\ runNo' = runNo + 1
  /\ \E a \in Args, f \in ConfigFiles :
       /\ args' = a
       /\ configFile' = f
  /\ PYJOKES_AVAILABLE' \in IF args.install
                              THEN install_dependencies(PYJOKES_AVAILABLE)
                              ELSE {PYJOKES_AVAILABLE}
  /\ GTTS_AVAILABLE' \in IF args.install
                           THEN install_dependencies(GTTS_AVAILABLE)
                           ELSE {GTTS_AVAILABLE}
  /\ pc' = "load_config"
  /\ UNCHANGED <<fileVars, histVars, audioVars, calls, osVars,
                 ret, ended, config, running, count, i, loadedLen, stdin, signalled>>

Next ==
  \/ LoadConfig
  \/ LoadHistory
  \/ StartInteractive
  \/ StartBatch
  \/ StartDaemon
  \/ BatchStep
  \/ InteractiveTop
  \/ InteractiveCommand
  \/ InteractiveEOF
  \/ KeyboardInterrupt
  \/ DaemonTop
  \/ DaemonBody
  \/ SignalHandler
  \/ CleanupStop
  \/ CleanupJoin
  \/ CleanupSave
  \/ ProcessEnd
  \/ Restart
  \/ \E w \in Workers : WorkerCheck(w)
  \/ \E w \in Workers : WorkerGet(w)
  \/ \E w \in Workers : WorkerTimeout(w)
  \/ \E w \in Workers : WorkerPlayed(w)

Spec == Init /\ [][Next]_vars

\* ------------------------------------------------------- one process run
\* One run of the program over a history file that an earlier run may have
\* left.  The control thread always gets to run and its blocking calls return
\* (sleep, synthesis, the timed join); nothing is assumed of the playback
\* workers, of the input stream or of signals.
HistoryFiles ==
  { AbsentHistory,
    save_jokes_history(get_joke(<<>>, TRUE, FALSE, <<"j1">>).history,
                       AbsentHistory, "ok") }

InitRun ==
  /\ \E a \in Args, f \in ConfigFiles, pj \in BOOLEAN, gt \in BOOLEAN :
       Process("load_config", a, f, pj, gt)
  /\ runNo = 1
  /\ historyFile \in HistoryFiles
  /\ lastSave = "none"
  /\ Host("Linux", {})

NextRun ==
  \/ LoadConfig
  \/ LoadHistory
  \/ StartInteractive
  \/ StartBatch
  \/ StartDaemon
  \/ BatchStep
  \/ InteractiveTop
  \/ InteractiveCommand
  \/ InteractiveEOF
  \/ KeyboardInterrupt
  \/ DaemonTop
  \/ DaemonBody
  \/ SignalHandler
  \/ CleanupStop
  \/ CleanupJoin
  \/ CleanupSave
  \/ ProcessEnd
  \/ \E w \in Workers : WorkerCheck(w)
  \/ \E w \in Workers : WorkerGet(w)
  \/ \E w \in Workers : WorkerTimeout(w)
  \/ \E w \in Workers : WorkerPlayed(w)

\* The steps of the control thread that need no input and no signal; input()
\* on a stream that has ended is one, it raises without waiting.
Control ==
  \/ (stdin = "eof" /\ InteractiveEOF)
  \/ LoadConfig
  \/ LoadHistory
  \/ StartInteractive
  \/ StartBatch
  \/ StartDaemon
  \/ BatchStep
  \/ InteractiveTop
  \/ DaemonTop
  \/ DaemonBody
  \/ CleanupStop
  \/ CleanupJoin
  \/ CleanupSave

FairRun == InitRun /\ [][NextRun]_vars /\ WF_vars(Control)

\* ----------------------------------------------- AudioManager on its own
\* An AudioManager driven by any sequence of calls of its methods: start and
\* stop of the background playback, and puts on its queue.
InitApi ==
  /\ Process("api", [mode |-> "daemon", count |-> NoCount, install |-> FALSE,
                     no_audio |-> FALSE], NoFile, TRUE, TRUE)
  /\ runNo = 1
  /\ historyFile = AbsentHistory
  /\ lastSave = "none"
  /\ Host("Linux", {})

ApiStart ==
  /\ pc = "api"
  /\ \E w \in Workers : worker[w] = "unborn"
  /\ worker' = start_background_playback(worker)
  /\ playback_thread' = NewThread
  /\ calls' = Bump({"start"})
  /\ UNCHANGED <<envVars, ctlVars, histVars, fileVars,
                 audio_queue, stop_event, playing, played>>

ApiStop ==
  /\ pc = "api"
  /\ stop_background_playback("api_join", "api")
  /\ UNCHANGED <<envVars, histVars, fileVars, calls,
                 audio_queue, playback_thread, worker, playing, played,
                 ret, ended, config, running, count, i, loadedLen, stdin, signalled>>

ApiJoin ==
  /\ pc = "api_join"
  /\ join(playback_thread, TRUE)
  /\ pc' = "api"
  /\ UNCHANGED <<envVars, histVars, fileVars, audioVars, calls,
                 ret, ended, config, running, count, i, loadedLen, stdin, signalled>>

ApiPut ==
  /\ pc = "api"
  /\ calls["put"] < MaxIter
  /\ audio_queue' = Append(audio_queue, calls["put"] + 1)
  /\ calls' = Bump({"put"})
  /\ UNCHANGED <<envVars, ctlVars, histVars, fileVars,
                 stop_event, playback_thread, worker, playing, played>>

NextApi ==
  \/ ApiStart
  \/ ApiStop
  \/ ApiJoin
  \/ ApiPut
  \/ \E w \in Workers : WorkerCheck(w)
  \/ \E w \in Workers : WorkerGet(w)
  \/ \E w \in Workers : WorkerTimeout(w)
  \/ \E w \in Workers : WorkerPlayed(w)

SpecApi == InitApi /\ [][NextApi]_vars

\* One step of the thread w that runs playback_worker.
playback_worker(w) ==
  \/ WorkerCheck(w)
  \/ WorkerGet(w)
  \/ WorkerTimeout(w)
  \/ WorkerPlayed(w)

\* The same AudioManager with every playback thread scheduled again and
\* again: the poll of the queue returns after its timeout of one second at
\* the latest, and a playback call that was made returns.  Nothing is assumed
\* of the caller of the methods.
FairApi ==
  InitApi /\ [][NextApi]_vars /\ \A w \in Workers : WF_vars(playback_worker(w))

\* ------------------------------------------------- play_audio on its own
\* Mutant of play_audio: the player is chosen and launched before the file
\* is looked for.
play_audio_launches_first(filepath, exists, sys, player) ==
  LET cmd == CASE sys = "Windows" -> "startfile"
               [] sys = "Darwin"  -> "afplay"
               [] sys = "Linux"   -> "mpg123"
               [] OTHER           -> "none"
  IN  [path |-> filepath, existed |-> exists, launched |-> cmd, raised |-> FALSE,
       result |-> exists /\ cmd # "none" /\ player # "raises"]

\* AudioManager.play_audio: the existence check comes first; then the player
\* of the platform is launched.  A player that cannot be started raises, which
\* is caught and gives False; the exit status of a player that ran is not
\* looked at.  No exception leaves the method.
play_audio(filepath, exists, sys, player) ==
  IF ~exists
    THEN [path |-> filepath, existed |-> exists, launched |-> "none",
          raised |-> FALSE, result |-> FALSE]
  ELSE LET cmd == CASE sys = "Windows" -> "startfile"
                    [] sys = "Darwin"  -> "afplay"
                    [] sys = "Linux"   -> "mpg123"
                    [] OTHER           -> "none"
       IN  [path |-> filepath, existed |-> exists, launched |-> cmd,
            raised |-> FALSE, result |-> cmd # "none" /\ player # "raises"]

Systems        == {"Windows", "Darwin", "Linux", "FreeBSD"}
PlayerOutcomes == {"ok", "nonzero", "raises"}
Paths          == 1..MaxPaths

\* An AudioManager on any platform, driven by calls of text_to_speech and
\* play_audio, while audio files may be removed from the output directory.
InitPlay ==
  /\ Process("audio", [mode |-> "interactive", count |-> NoCount,
                       install |-> FALSE, no_audio |-> FALSE], NoFile, TRUE, TRUE)
  /\ runNo = 1
  /\ historyFile = AbsentHistory
  /\ lastSave = "none"
  /\ \E sys \in Systems : Host(sys, {})

\* text_to_speech saves a new file
PlaySynth ==
  /\ pc = "audio"
  /\ calls["text_to_speech"] < MaxPaths
  /\ files' = files \cup {text_to_speech}
  /\ calls' = Bump({"text_to_speech"})
  /\ UNCHANGED <<runNo, args, configFile, PYJOKES_AVAILABLE, GTTS_AVAILABLE,
                 system, lastPlay, ctlVars, histVars, fileVars, audioVars>>

\* a file is removed from the output directory
PlayRemove ==
  /\ pc = "audio"
  /\ \E path \in files : files' = files \ {path}
  /\ UNCHANGED <<runNo, args, configFile, PYJOKES_AVAILABLE, GTTS_AVAILABLE,
                 system, lastPlay, ctlVars, histVars, fileVars, audioVars, calls>>

\* play_audio(path)
PlayAudio ==
  /\ pc = "audio"
  /\ \E path \in Paths, player \in PlayerOutcomes :
       lastPlay' = play_audio(path, path \in files, system, player)
  /\ UNCHANGED <<runNo, args, configFile, PYJOKES_AVAILABLE, GTTS_AVAILABLE,
                 system, files, ctlVars, histVars, fileVars, audioVars, calls>>

NextPlay ==
  \/ PlaySynth
  \/ PlayRemove
  \/ PlayAudio

SpecPlay == InitPlay /\ [][NextPlay]_vars

\* ------------------------------------------- the history store on its own
\* A JokeManager driven by any sequence of get_joke, save_jokes_history and
\* load_jokes_history calls, over a file that an earlier run may have left.
StoreTexts ==
  { <<"j1">>,
    <<"say ", Quote, "hi", Quote>>,
    <<"caf", "e-acute", " a", Backslash>> }

\* The history after n fetches of a fresh JokeManager.
RECURSIVE Fetched(_)
Fetched(n) ==
  IF n = 0 THEN <<>> ELSE get_joke(Fetched(n - 1), TRUE, FALSE, <<"j1">>).history

\* The file of an earlier run with nine records: the next ids have two digits.
Older == Fetched(9)

InitStore ==
  /\ Process("store", [mode |-> "interactive", count |-> NoCount,
                       install |-> FALSE, no_audio |-> TRUE], NoFile, TRUE, TRUE)
  /\ runNo = 1
  /\ historyFile \in {AbsentHistory, save_jokes_history(Older, AbsentHistory, "ok")}
  /\ lastSave = "none"
  /\ Host("Linux", {})

StoreFetch ==
  /\ pc \in {"store", "saved", "loaded"}
  /\ calls["get_joke"] < MaxLen
  /\ \E text \in StoreTexts :
       LET r == get_joke(jokes_history, PYJOKES_AVAILABLE, FALSE, text)
       IN  /\ jokes_history' = r.history
           /\ lastJoke' = r.joke
  /\ calls' = Bump({"get_joke"})
  /\ pc' = "store"
  /\ UNCHANGED <<envVars, fileVars, audioVars,
                 ret, ended, config, running, count, i, loadedLen, stdin, signalled>>

StoreSave ==
  /\ pc \in {"store", "saved", "loaded"}
  /\ \E outcome \in SaveOutcomes :
       /\ historyFile' = save_jokes_history(jokes_history, historyFile, outcome)
       /\ lastSave' = outcome
  /\ pc' = "saved"
  /\ UNCHANGED <<envVars, histVars, audioVars, calls,
                 ret, ended, config, running, count, i, loadedLen, stdin, signalled>>

StoreLoad ==
  /\ pc \in {"store", "saved", "loaded"}
  /\ jokes_history' = load_jokes_history(jokes_history, historyFile)
  /\ loadedLen' = Len(jokes_history')
  /\ pc' = "loaded"
  /\ UNCHANGED <<envVars, fileVars, audioVars, calls, lastJoke,
                 ret, ended, config, running, count, i, stdin, signalled>>

NextStore ==
  \/ StoreFetch
  \/ StoreSave
  \/ StoreLoad

SpecStore == InitStore /\ [][NextStore]_vars

\* ================================================================ claims
InCleanup == pc \in {"join", "save"}
\* main has been left: the interpreter is running its exit hook or has ended
MainLeft  == pc \in {"atexit", "exited"} \/ (InCleanup /\ ret = "exited")
Appended  == Len(jokes_history) - loadedLen
Increasing(h) ==
  \A k \in 1..Len(h) : HasId(h[k]) /\ (k > 1 => h[k-1].id < h[k].id)

\* The records of the history file with the ids a load would give them.
SavedIds ==
  [k \in 1..Len(historyFile.data) |->
     [key \in DOMAIN historyFile.data[k] \cap {"id"} |->
        load_value(historyFile.data[k][key])]]

\* C1: batch mode through main with a count of N, audio disabled and the joke
\* collaborator available ends with exactly N records appended and play_audio
\* never called; without a signal the loop ends only when the count is used up.
C1_BatchAppendsCount ==
  (/\ args.mode = "batch"
   /\ ended = "return"
   /\ ~signalled
   /\ PYJOKES_AVAILABLE
   /\ calls["raised"] = 0
   /\ ~Truthy(config.audio_enabled))
  => (Appended = count /\ i = count /\ calls["play_audio"] = 0)

\* C2: shutdown is idempotent: however often cleanup is entered in a process,
\* the worker is stopped once and the history is written once by it.
C2_ShutdownOnce ==
  calls["stop"] <= 1 /\ calls["cleanup_save"] <= 1

\* C3: every call of get_joke appends the record it returns to the history,
\* also the fallback record and the error record.
C3_FetchAppends ==
  [][calls'["get_joke"] = calls["get_joke"] + 1
       => jokes_history' = Append(jokes_history, lastJoke')]_vars

\* C4: every record get_joke returns carries an id equal to the length of the
\* history right after the call.
C4_IdIsHistoryLength ==
  lastJoke # NoJoke => (HasId(lastJoke) /\ lastJoke.id = Len(jokes_history))

\* C5: over consecutive runs that start from an absent history file, the ids
\* of the history are strictly increasing in insertion order, in memory and in
\* the saved file.
C5_IdsIncreasing ==
  /\ Increasing(jokes_history)
  /\ historyFile.st = "ok" => Increasing(SavedIds)

\* C5 witness: a second run loaded records, fetched more and saved them all.
C5_Witness ==
  /\ runNo = 2
  /\ loadedLen >= 1
  /\ Appended >= 1
  /\ historyFile.st = "ok"
  /\ json_load(historyFile.data) = jokes_history

\* C6: daemon mode with delay 0 and an always failing collaborator: after 3
\* iterations the history holds 3 records of category "error" and nothing was
\* put on the playback queue.
C6_DaemonAllFail ==
  (/\ args.mode = "daemon"
   /\ config.delay_seconds = TInt(0)
   /\ calls["get_joke"] = 3
   /\ calls["raised"] = 3)
  => (/\ Appended = 3
      /\ \A k \in 1..Len(jokes_history) :
           k > loadedLen => jokes_history[k].category = <<"error">>
      /\ calls["put"] = 0)

\* C7: after any sequence of starts and stops of the background playback at
\* most one playback worker is alive.
C7_OneWorker ==
  Cardinality({w \in Workers : Alive(w)}) <= 1

\* C8: load_config overrides only the keys whose value has the type of the
\* field; a field whose value in the file has another type keeps its default,
\* and keys that are no fields are ignored.
C8_IncompatibleKeepsDefault ==
  (pc \notin {"load_config", "off"} /\ configFile.exists)
  => \A k \in Fields :
       (k = "audio_enabled" /\ args.no_audio)
       \/ config[k] = IF k \in DOMAIN configFile.data
                         /\ configFile.data[k].t = FieldType[k]
                        THEN configFile.data[k] ELSE Config[k]

\* C9: every run of main that enters a run mode has stopped the worker and
\* saved the history by the time main is left, whether the mode returned, was
\* interrupted or raised.
C9_ShutdownOnEveryExit ==
  (MainLeft /\ ~args.install)
  => (/\ ended \in {"return", "interrupt", "exception"}
      /\ stop_event
      /\ calls["stop"] >= 1
      /\ calls["cleanup_save"] >= 1)

\* C9 witness: a mode that raised, after which main has been left.
C9_Witness ==
  pc = "atexit" /\ ended = "exception" /\ calls["cleanup_save"] = 1

\* C10 as stated: at process exit the worker stop was signalled, the history
\* was written after it, and the file holds every record appended during the
\* run.
C10_FileHoldsRun ==
  pc = "exited"
  => (/\ stop_event
      /\ calls["cleanup_save"] >= 1
      /\ \A k \in (loadedLen + 1)..Len(jokes_history) :
           /\ historyFile.st = "ok"
           /\ k <= Len(historyFile.data)
           /\ json_load(historyFile.data)[k] = jokes_history[k])

\* C10 amended: in every cleanup the stop is signalled and the join attempted
\* before the history is written, and the write is attempted before the
\* process exits; control never returns to a run mode once cleanup has begun,
\* so when the last write succeeded the file holds the whole history of the
\* run; a write that fails is swallowed.
C10_StopThenSave ==
  /\ calls["cleanup"] >= 1 => pc \in {"join", "save", "atexit", "exited"}
  /\ pc = "save" => (/\ stop_event
                     /\ calls["stop"] = calls["cleanup"]
                     /\ calls["cleanup_save"] = calls["cleanup"] - 1
                     /\ playback_thread # 0 => calls["join"] = calls["cleanup"])
  /\ pc = "exited" => (/\ calls["cleanup_save"] >= 1
                       /\ lastSave = "ok" =>
                            (/\ historyFile.st = "ok"
                             /\ json_load(historyFile.data) = jokes_history))

\* C10 witness: a run that loaded and fetched records, stopped a worker and
\* wrote them all at exit.
C10_Witness ==
  /\ pc = "exited"
  /\ playback_thread # 0
  /\ loadedLen >= 1
  /\ Appended >= 1
  /\ lastSave = "ok"
  /\ json_load(historyFile.data) = jokes_history

\* C11: in daemon mode, once a signal has cleared the running flag while the
\* loop runs, the flag stays cleared, the pass in flight is the last one that
\* fetches (at most one more record), the top of the loop then leaves the
\* loop without a fetch, and cleanup is reached.
C11_SignalEndsDaemon ==
  /\ [][(args.mode = "daemon" /\ ~running /\ pc \in {"daemon", "daemon_body"})
         => /\ ~running'
            /\ pc = "daemon" =>
                 (/\ pc' \in {"daemon", "finally"}
                  /\ calls'["get_joke"] = calls["get_joke"])
            /\ pc = "daemon_body" =>
                 (/\ pc' \in {"daemon_body", "daemon", "finally"}
                  /\ calls'["get_joke"] <= calls["get_joke"] + 1)]_vars
  /\ (args.mode = "daemon" /\ ~running /\ pc \in {"daemon", "daemon_body"})
       ~> (calls["cleanup"] >= 1)

\* C11 witness: a daemon that fetched, was signalled in its loop, left the
\* loop by the flag and is in cleanup.
C11_Witness ==
  /\ args.mode = "daemon"
  /\ signalled
  /\ ended = "return"
  /\ calls["get_joke"] >= 1
  /\ pc = "save"

\* C12: in daemon mode every call of play_audio is made by the worker, on a
\* path the loop has put on the queue; the worker is started once and before
\* the first fetch; interactive and batch mode start no worker.
C12_WorkerPlaysOnly ==
  /\ args.mode = "daemon" =>
       /\ calls["play_audio"] = Len(played)
       /\ \A k \in 1..Len(played) : played[k] \in 1..calls["put"]
       /\ calls["start"] <= 1
       /\ (pc \in {"daemon", "daemon_body"} \/ calls["get_joke"] >= 1) =>
            (/\ calls["start"] = 1
             /\ playback_thread # 0
             /\ {w \in Workers : worker[w] # "unborn"} = {playback_thread})
  /\ args.mode # "daemon" =>
       /\ calls["start"] = 0
       /\ playback_thread = 0
       /\ \A w \in Workers : worker[w] = "unborn"

\* C12 witness: a daemon whose worker has played two enqueued paths.
C12_Witness ==
  /\ args.mode = "daemon"
  /\ calls["put"] >= 2
  /\ Len(played) >= 2
  /\ calls["task_done"] >= 1

\* C13 as stated: the worker plays the paths in the order they were put, each
\* at most once, puts nothing itself, and every path it took from the queue
\* has been marked done exactly once when no playback is in progress.
C13_EachDoneOnce ==
  args.mode = "daemon" =>
    /\ played \o audio_queue = [k \in 1..calls["put"] |-> k]
    /\ (\A w \in Workers : worker[w] # "play") => calls["task_done"] = Len(played)

\* C13 amended: the paths are dequeued and played in the order they were put,
\* each at most once, and the worker puts nothing; a dequeued path is marked
\* done once, when its playback has returned: the marks made are the dequeued
\* paths less the one whose playback has not returned, which is the last one
\* dequeued and stays unmarked when the process ends during its playback.
C13_FifoQueue ==
  args.mode = "daemon" =>
    /\ played \o audio_queue = [k \in 1..calls["put"] |-> k]
    /\ calls["task_done"] + Cardinality({w \in Workers : playing[w] # 0}) = Len(played)
    /\ \A w \in Workers :
         playing[w] # 0 => (/\ worker[w] \in {"play", "dead"}
                            /\ playing[w] = played[Len(played)])

\* C13 witness: two paths played and marked done while a third is waiting.
C13_Witness ==
  /\ args.mode = "daemon"
  /\ calls["task_done"] >= 2
  /\ played = <<1, 2>>
  /\ audio_queue = <<3>>

\* C14: stop_background_playback always returns: once cleanup is entered the
\* stop event is set and control reaches the history write, whatever the
\* worker does (it may never leave its playback call) and also when no worker
\* exists; the join leaves the worker as it is.
C14_StopReturns ==
  /\ [](pc \in {"join", "save"} => stop_event)
  /\ [][(pc = "join" /\ pc' # "join") => worker' = worker]_vars
  /\ (pc \in {"finally", "atexit"}) ~> (pc = "save")

\* C14 witness: the stop has returned while the worker is still inside its
\* playback call.
C14_Witness ==
  /\ pc = "save"
  /\ ret = "atexit"
  /\ calls["join"] = 1
  /\ playback_thread # 0
  /\ worker[playback_thread] = "play"

\* A step of a playback thread: a thread moves while the control thread stays
\* where it is.
WorkerStep == worker' # worker /\ pc' = pc

\* C15: a step of the playback worker (poll, dequeue and play, mark done,
\* timeout) leaves the history, the history file, the settings and all other
\* state of the control thread unchanged; it changes only the queue, the
\* worker's own state and the counts of its own calls, none of which decides
\* what the control thread appends.
C15_WorkerFrame ==
  [][WorkerStep =>
       /\ UNCHANGED <<envVars, ctlVars, histVars, fileVars, stop_event, playback_thread>>
       /\ \A c \in CallNames \ {"play_audio", "task_done"} : calls'[c] = calls[c]]_vars

\* C15 witness: worker steps have been taken between two fetches of the loop.
C15_Witness ==
  /\ pc = "daemon_body"
  /\ Appended >= 2
  /\ calls["task_done"] >= 1
  /\ \E w \in Workers : worker[w] = "play"

\* C16: after a successful save the file holds the JSON text of the history
\* and nothing of what it held before; a load, whatever the history in memory,
\* gives back the saved history record by record (text, category, timestamp,
\* id), for histories of any length.
C16_RoundTrip ==
  /\ [](pc = "saved" /\ lastSave = "ok" =>
          /\ historyFile = save_jokes_history(jokes_history, AbsentHistory, "ok")
          /\ \A h0 \in {<<>>, Older} :
               load_jokes_history(h0, historyFile) = jokes_history)
  /\ [][(pc = "saved" /\ lastSave = "ok" /\ pc' = "loaded")
         => jokes_history' = jokes_history]_vars

\* C16 witness: a history of eleven records, two of them with quotes, a
\* backslash and a non-ASCII character in their text, saved and loaded.
C16_Witness ==
  /\ pc = "loaded"
  /\ lastSave = "ok"
  /\ Len(jokes_history) = 11
  /\ jokes_history[10].text = <<"say ", Quote, "hi", Quote>>
  /\ jokes_history[11].text = <<"caf", "e-acute", " a", Backslash>>
  /\ jokes_history[11].id = 11
  /\ historyFile.data = json_dump(jokes_history)

\* C17: with --no-audio, once the settings are loaded audio is disabled,
\* whatever the settings file holds, and in every mode nothing is
\* synthesized, played or put on the queue; no step of the process changes
\* the settings file.
C17_NoAudio ==
  /\ []((args.no_audio /\ pc \notin {"load_config", "off"}) =>
          /\ ~Truthy(config.audio_enabled)
          /\ calls["text_to_speech"] = 0
          /\ calls["play_audio"] = 0
          /\ calls["put"] = 0
          /\ audio_queue = <<>>
          /\ played = <<>>)
  /\ [][pc # "off" => configFile' = configFile]_vars

\* C17 witness: a daemon with --no-audio over a settings file that enables
\* audio, with synthesis available, after two fetches.
C17_Witness ==
  /\ args.no_audio
  /\ args.mode = "daemon"
  /\ configFile.exists
  /\ Truthy(configFile.data["audio_enabled"])
  /\ GTTS_AVAILABLE
  /\ calls["get_joke"] >= 2

\* C18: play_audio of a path that does not exist returns False, raises
\* nothing and launches no player, on every platform.
C18_MissingFile ==
  (lastPlay # NoPlay /\ ~lastPlay.existed)
  => (/\ ~lastPlay.result
      /\ ~lastPlay.raised
      /\ lastPlay.launched = "none")

\* C18 witness: on Windows, play_audio was called on a file that had been
\* synthesized and then removed.
C18_Witness ==
  /\ system = "Windows"
  /\ lastPlay.path = 1
  /\ ~lastPlay.existed
  /\ calls["text_to_speech"] >= 1
  /\ 1 \notin files

\* C19: a run with --install runs no mode and no step of it changes a
\* history file that holds records: the file has the same content after the
\* process has exited (a write that fails is left aside).
C19_InstallKeepsHistory ==
  [][(/\ args.install
      /\ pc # "off"
      /\ historyFile.st = "ok"
      /\ Len(historyFile.data) >= 1
      /\ lastSave' \in {"none", "ok"})
       => (/\ historyFile' = historyFile
           /\ calls'["get_joke"] = 0)]_vars

\* C20: in interactive or daemon mode a signal handled before the loop of
\* the mode has started is not lost: no record is fetched after it.  (The
\* flag is set again only by the start of a mode, so a handled signal with the
\* flag set is a signal handled before the start.)
C20_EarlySignalKept ==
  (args.mode \in {"interactive", "daemon"} /\ signalled /\ running)
  => calls["get_joke"] = 0

\* C21: while the stop event is set a playback starts only as the one step of
\* a worker that was already polling the queue, a worker that is not polling
\* never polls again (so each worker starts at most one further playback, and
\* a worker started after the event was set starts none), nothing is played
\* once no worker is polling or playing, whatever the queue still holds, and
\* every worker that is scheduled and whose playback call returns ends.
C21_StopEndsWorker ==
  /\ [][stop_event =>
         /\ stop_event'
         /\ \A w \in Workers : worker[w] # "get" => worker'[w] # "get"
         /\ played' # played =>
               /\ Len(played') = Len(played) + 1
               /\ \E w \in Workers : worker[w] = "get" /\ worker'[w] = "play"
         /\ (\A w \in Workers : worker[w] \notin {"get", "play"}) =>
               \A w \in Workers : worker'[w] \notin {"get", "play"}]_vars
  /\ \A w \in Workers : (stop_event /\ Alive(w)) ~> ~Alive(w)

\* C21 witness: the stop event is set, a worker has played a path and has
\* ended, a second thread has ended too, and a path is left on the queue.
C21_Witness ==
  /\ stop_event
  /\ played # <<>>
  /\ audio_queue # <<>>
  /\ worker[1] = "dead"
  /\ worker[2] = "dead"

\* C22: the command loop is left by the quit command and by a keyboard
\* interrupt, and once the input has ended the interactive mode reaches the
\* shutdown: the loop does not go on without input to read.
C22_InteractiveEnds ==
  /\ [][(pc = "input" /\ ended' \in {"return", "interrupt"}) => pc' = ModeReturned]_vars
  /\ (args.mode = "interactive" /\ stdin = "eof") ~> (calls["cleanup"] >= 1)

====
